---------------------------- MODULE Spec2Model ----------------------------
(***************************************************************************)
(* Model of the synthetic display-topology generator of convertible-couch  *)
(* (tests_common/src/fuzzing): the ComputerFuzzer builder, the             *)
(* MonitorFuzzer it seeds, and build().                                    *)
(*                                                                         *)
(* Random draws are nondeterministic choices over the outcomes the seeded  *)
(* generator can produce.  Ranges and index pools that reach the program's *)
(* limit of 162 video outputs are sampled: the low end of each range and   *)
(* its upper end are kept, the middle is left out (MaxSpread, MaxPool).    *)
(***************************************************************************)
EXTENDS Integers, Sequences, FiniteSets, TLC

VARIABLES
    rand,                 \* ComputerFuzzer.rand; pos = values drawn so far
    video_outputs,        \* ComputerFuzzer.video_outputs
    change_display_settings_error_on_commit,
    change_display_settings_error_by_monitor,
    has_an_internal_display,
    getting_primary_monitor_name_fails,
    querying_the_display_config_of_the_primary_monitor_fails,
    monitor_fuzzer,       \* local of with_a_range_of_monitors (last call)
    monitors,             \* local of with_a_range_of_monitors (last call)
    video_outputs_to_plug_in_indexes, \* local, after sort (0-based indexes)
    computer,             \* what build() returned, None before
    pc,                   \* "configuring", "built" or "panicked"
    last_call,            \* the builder method the caller invoked last
    n_calls,              \* number of builder calls made so far
    n_configurations      \* number of them that constrain the monitor count

vars == <<rand, video_outputs, change_display_settings_error_on_commit,
          change_display_settings_error_by_monitor, has_an_internal_display,
          getting_primary_monitor_name_fails,
          querying_the_display_config_of_the_primary_monitor_fails,
          monitor_fuzzer, monitors, video_outputs_to_plug_in_indexes,
          computer, pc, last_call, n_calls, n_configurations>>

----------------------------------------------------------------------------
(* Bounds of the model *)

\* Values a 64-bit draw (a seed) is sampled from: 0..MaxSeed.
MaxSeed == 1
\* gen_range(lo..=hi) is sampled as lo..lo+MaxSpread plus hi itself.
MaxSpread == 0
\* Index pools over many elements keep MaxPool low elements plus the last.
MaxPool == 1
\* with_n_monitors is called with 0..MaxExactCount and with 163.
MaxExactCount == 2
\* Length of the fluent chain before build().
MaxCalls == 3
\* Number of count-constraining calls in one chain.
MaxConfigurations == 2

(* Program constant *)
MAX_VIDEO_OUTPUTS == 162

----------------------------------------------------------------------------
(* Option<T>: None is the empty sequence, Some(v) the one-element sequence *)

None == <<>>
Some(v) == <<v>>
IsSome(o) == Len(o) = 1
Unwrap(o) == o[1]

RangeOf(s) == {s[i] : i \in DOMAIN s}
IsInjective(f) == \A a, b \in DOMAIN f : f[a] = f[b] => a = b
Min2(a, b) == IF a < b THEN a ELSE b

\* Strings that get ordered are sequences of character codes.
EMPTY_NAME == <<>>
PRIMARY_PLACEHOLDER == <<60, 112, 114, 105, 109, 97, 114, 121, 62>>
SECONDARY_PLACEHOLDER == <<60, 115, 101, 99, 111, 110, 100, 97, 114, 121, 62>>

RECURSIVE StrLess(_, _)
StrLess(a, b) ==
    IF a = <<>> THEN b # <<>>
    ELSE IF b = <<>> THEN FALSE
    ELSE IF a[1] # b[1] THEN a[1] < b[1]
    ELSE StrLess(Tail(a), Tail(b))

IntLess(a, b) == a < b

\* DISP_CHANGE codes a test injects (BADMODE, FAILED).
DISP_CHANGE == {-2, -1}

----------------------------------------------------------------------------
(* rand: StdRng as [seed, pos]; every draw advances pos by one *)

U64 == 0 .. MaxSeed

\* A draw is [value, at]: the value and its position in the stream drawn from.
\* A generator remembers the draw that seeded it.
seed_from_u64(draw) == [seed |-> draw.value, drawn_at |-> draw.at, pos |-> 0]

Advance(r, n) == [r EXCEPT !.pos = @ + n]

\* rand.next_u64(): the generator is deterministic, its output a fixed
\* function of its seed and position.
next_u64(r) == [value |-> (r.seed + r.pos) % (MaxSeed + 1), at |-> r.pos]

\* Outcomes of gen_range(lo..=hi); empty when the range is (the call panics).
GenRangeInclusive(lo, hi) ==
    {v \in lo .. hi : v <= lo + MaxSpread \/ v = hi}

\* Outcomes of gen_range(lo..hi), upper end excluded.
GenRange(lo, hi) == GenRangeInclusive(lo, hi - 1)

\* Elements of 0..n-1 from k on that a sample keeps.
LaterIndexes(n, k) == {i \in k .. n - 1 : i < k + MaxPool - 1 \/ i = n - 1}
SampledSlots(k) == {j \in 1 .. k : j <= MaxPool \/ j = k}

\* IteratorRandom::choose_multiple over 0..n-1: the reservoir starts as the
\* first `amount` elements and later elements overwrite slots, one draw for
\* each later element.
IteratorChooseMultiple(n, amount) ==
    LET k == Min2(n, amount)
        replacements ==
            UNION {{f \in [D -> LaterIndexes(n, k)] : IsInjective(f)} :
                   D \in SUBSET SampledSlots(k)}
    IN {[j \in 1 .. k |-> IF j \in DOMAIN f THEN f[j] ELSE j - 1] :
        f \in replacements}

IteratorChooseMultipleDraws(n, amount) == IF n > amount THEN n - amount ELSE 0

\* SliceRandom::choose_multiple over a slice of length n: `amount` distinct
\* positions (1-based here), as a set since the caller ignores the order;
\* one draw for each position.
SliceChooseMultiple(n, amount) ==
    LET pool == {i \in 1 .. n : i <= MaxPool \/ i = n}
        rest == (1 .. n) \ pool
        k == Min2(n, amount)
    IN {P \cup {i \in rest : i <= MaxPool + (k - Cardinality(P))} :
        P \in {Q \in SUBSET pool : Cardinality(Q) <= k
                                   /\ k - Cardinality(Q) <= Cardinality(rest)}}

----------------------------------------------------------------------------
(* Leaf generators, positions and video outputs *)

\* The k-th name a name generator can produce: two capital letters.
NameOf(k) == <<65 + ((k \div 26) % 26), 65 + (k % 26)>>

\* A batch of n values that are pairwise distinct and avoid `forbidden`:
\* the first n admissible candidates of the stream the seed selects.
CandidateIndexes(seed, n, forbidden) ==
    [j \in 1 .. n + Cardinality(forbidden) |-> seed + j - 1]

FirstAdmissible(pool, n, forbidden) ==
    SubSeq(SelectSeq(pool, LAMBDA c : c \notin forbidden), 1, n)

MonitorNameFuzzer_generate_several(self, n, forbidden_monitor_names) ==
    LET indexes == CandidateIndexes(self.seed, n, forbidden_monitor_names)
    IN FirstAdmissible([j \in DOMAIN indexes |-> NameOf(indexes[j])],
                       n, forbidden_monitor_names)

ConfigModeInfoId(k) == k + 1
ConfigModeInfoIdFuzzer_generate_several(self, n) ==
    LET indexes == CandidateIndexes(self.seed, n, {})
    IN FirstAdmissible([j \in DOMAIN indexes |-> ConfigModeInfoId(indexes[j])],
                       n, {})

GsmId(k) == k
GsmIdFuzzer_generate_several(self, n, forbidden_device_ids) ==
    LET forbidden == {d[1] : d \in forbidden_device_ids}
        indexes == CandidateIndexes(self.seed, n, forbidden)
    IN FirstAdmissible([j \in DOMAIN indexes |-> GsmId(indexes[j])],
                       n, forbidden)

\* The device id is a fixed template over its parts.
DeviceIdFuzzer_generate_from_parts(monitor_id_gsm_part, config_mode_info_id) ==
    <<monitor_id_gsm_part, config_mode_info_id>>

is_positioned_at_origin(position) == position.x = 0 /\ position.y = 0

\* Batches of n positioned resolutions: exactly one at the origin (for
\* n > 0), no two at the same position.
PositionedResolutions(n) ==
    {[i \in 1 .. n |->
        [position |-> [x |-> (i - origin) * 1920, y |-> 0],
         resolution |-> [width |-> 1920, height |-> 1080]]] :
     origin \in {o \in 1 .. n : o <= MaxPool \/ o = n} \cup
                (IF n = 0 THEN {0} ELSE {})}

DevicePath(i) == "DISPLAY" \o ToString(i)

VideoOutputFuzzer_generate_several(n_video_output) ==
    [i \in 1 .. n_video_output |-> [device_name |-> DevicePath(i), monitor |-> None]]

plug_monitor(video_output, monitor) ==
    [video_output EXCEPT !.monitor = Some(monitor)]

----------------------------------------------------------------------------
(* MonitorFuzzer *)

\* A leaf generator owns the StdRng it was constructed with.
LeafFuzzer(r) == [rand |-> r, seed |-> r.seed]

\* Mutant of MonitorFuzzer_new: one draw for each leaf generator.
MonitorFuzzer_new_four_draws(r) ==
    [rand |-> Advance(r, 4),
     monitor_name_fuzzer |-> LeafFuzzer(seed_from_u64(next_u64(r))),
     device_id_fuzzer |-> LeafFuzzer(seed_from_u64(next_u64(Advance(r, 1)))),
     config_mode_info_id_fuzzer |-> LeafFuzzer(seed_from_u64(next_u64(Advance(r, 2)))),
     gsm_id_fuzzer |-> LeafFuzzer(seed_from_u64(next_u64(Advance(r, 3))))]

\* Mutants of MonitorPrimary and MonitorName.
MonitorPrimary_negated(position) == ~is_positioned_at_origin(position)
MonitorName_ignores_primary(has_internal_display, primary, name) ==
    IF has_internal_display THEN EMPTY_NAME ELSE name

\* let primary = position.is_positioned_at_origin();
MonitorPrimary(position) == is_positioned_at_origin(position)

\* let name = if has_an_internal_display && primary { "" } else { names[i] };
MonitorName(has_internal_display, primary, name) ==
    IF has_internal_display /\ primary THEN EMPTY_NAME ELSE name

MonitorFuzzer_new(r) ==
    LET seed == next_u64(r)
    IN [rand |-> Advance(r, 1),
        monitor_name_fuzzer |-> LeafFuzzer(seed_from_u64(seed)),
        device_id_fuzzer |-> LeafFuzzer(seed_from_u64(seed)),
        config_mode_info_id_fuzzer |-> LeafFuzzer(seed_from_u64(seed)),
        gsm_id_fuzzer |-> LeafFuzzer(seed_from_u64(seed))]

MonitorFuzzer_generate_several(self, has_internal_display, forbidden_monitor_names, forbidden_device_ids, positioned_resolutions) ==
    LET n_monitor == Len(positioned_resolutions)
        names == MonitorNameFuzzer_generate_several(
                     self.monitor_name_fuzzer, n_monitor, forbidden_monitor_names)
        config_mode_info_ids == ConfigModeInfoIdFuzzer_generate_several(
                                    self.config_mode_info_id_fuzzer, n_monitor)
        monitor_id_gsm_parts == GsmIdFuzzer_generate_several(
                                    self.gsm_id_fuzzer, n_monitor, forbidden_device_ids)
    IN [monitor_index \in 1 .. n_monitor |->
         LET position == positioned_resolutions[monitor_index].position
             primary == MonitorPrimary(position)
         IN [name |-> MonitorName(has_internal_display, primary, names[monitor_index]),
             primary |-> primary,
             config_mode_info_id |-> config_mode_info_ids[monitor_index],
             device_id |-> DeviceIdFuzzer_generate_from_parts(
                               monitor_id_gsm_parts[monitor_index],
                               config_mode_info_ids[monitor_index]),
             resolution |-> positioned_resolutions[monitor_index].resolution,
             position |-> position]]

----------------------------------------------------------------------------
(* ComputerFuzzer *)

Init ==
    /\ rand = seed_from_u64([value |-> 0, at |-> 0])
    /\ video_outputs = <<>>
    /\ change_display_settings_error_on_commit = None
    /\ change_display_settings_error_by_monitor = <<>>
    /\ has_an_internal_display = FALSE
    /\ getting_primary_monitor_name_fails = FALSE
    /\ querying_the_display_config_of_the_primary_monitor_fails = FALSE
    /\ monitor_fuzzer = None
    /\ monitors = <<>>
    /\ video_outputs_to_plug_in_indexes = <<>>
    /\ computer = None
    /\ pc = "configuring"
    /\ last_call = "new"
    /\ n_calls = 0
    /\ n_configurations = 0

\* The caller invokes builder method `name` on a builder still in use.
Call(name) ==
    /\ pc = "configuring"
    /\ n_calls < MaxCalls
    /\ n_calls' = n_calls + 1
    /\ last_call' = name
    /\ computer' = computer

\* Calls that end in with_a_range_of_monitors.
Configure(name) ==
    /\ Call(name)
    /\ n_configurations < MaxConfigurations
    /\ n_configurations' = n_configurations + 1

\* All other calls.
Inject(name) ==
    /\ Call(name)
    /\ UNCHANGED n_configurations

Returns == pc' = "configuring"
Panics == pc' = "panicked"

\* The for_each of with_a_range_of_monitors for the monitor indexes first..last,
\* in order (split in halves to keep the evaluation shallow).
RECURSIVE PlugMonitors(_, _, _, _, _)
PlugMonitors(outputs, indexes, generated, first, last) ==
    IF first > last THEN outputs
    ELSE IF first = last
    THEN [outputs EXCEPT ![indexes[first] + 1] = plug_monitor(@, generated[first])]
    ELSE LET middle == (first + last) \div 2
         IN CHOOSE plugged \in
                {PlugMonitors(half, indexes, generated, middle + 1, last) :
                 half \in {PlugMonitors(outputs, indexes, generated, first, middle)}} : TRUE

\* Mutant of SortIndexes: the chosen indexes are left as drawn.
SortIndexes_not_sorted(chosen) == chosen

\* video_outputs_to_plug_in_indexes.sort()
SortIndexes(chosen) == SortSeq(chosen, IntLess)

PrimaryCount(generated) ==
    Cardinality({i \in DOMAIN generated : generated[i].primary})

\* with_a_range_of_monitors, run with self.has_an_internal_display = internal.
with_a_range_of_monitors(min, max, forbidden_monitor_names, forbidden_device_ids, internal) ==
    \E fuzzer \in {MonitorFuzzer_new(seed_from_u64(next_u64(rand)))} :
    \E n_video_output \in GenRangeInclusive(min, max) :
    \E n_monitor \in GenRangeInclusive(min, n_video_output) :
    \E positioned_resolutions \in PositionedResolutions(n_monitor) :
    \E generated \in {MonitorFuzzer_generate_several(
                          fuzzer, internal, forbidden_monitor_names,
                          forbidden_device_ids, positioned_resolutions)} :
        /\ monitor_fuzzer' = Some(fuzzer)
        /\ monitors' = generated
        /\ UNCHANGED <<change_display_settings_error_on_commit,
                       change_display_settings_error_by_monitor,
                       getting_primary_monitor_name_fails,
                       querying_the_display_config_of_the_primary_monitor_fails>>
        /\ IF PrimaryCount(generated) # 1
           THEN /\ Panics
                /\ rand' = Advance(rand, 3)
                /\ UNCHANGED <<video_outputs, video_outputs_to_plug_in_indexes>>
           ELSE \E chosen \in IteratorChooseMultiple(n_video_output, n_monitor) :
                \E indexes \in {SortIndexes(chosen)} :
                    /\ Returns
                    /\ rand' = Advance(rand, 3 + IteratorChooseMultipleDraws(
                                                   n_video_output, n_monitor))
                    /\ video_outputs_to_plug_in_indexes' = indexes
                    /\ video_outputs' =
                           PlugMonitors(VideoOutputFuzzer_generate_several(n_video_output),
                                        indexes, generated, 1, Len(indexes))

with_two_monitors_or_more ==
    /\ Configure("with_two_monitors_or_more")
    /\ UNCHANGED has_an_internal_display
    /\ with_a_range_of_monitors(2, MAX_VIDEO_OUTPUTS, {}, {}, has_an_internal_display)

\* Counts a caller asks for: small ones, and one above the limit.
MonitorCounts == (0 .. MaxExactCount) \cup {MAX_VIDEO_OUTPUTS + 1}

with_n_monitors(n_monitor) ==
    /\ Configure("with_n_monitors")
    /\ UNCHANGED has_an_internal_display
    /\ with_a_range_of_monitors(n_monitor, n_monitor, {}, {}, has_an_internal_display)

with_an_internal_display_and_at_least_one_more_monitor ==
    /\ Configure("with_an_internal_display_and_at_least_one_more_monitor")
    /\ has_an_internal_display' = TRUE
    /\ with_a_range_of_monitors(2, MAX_VIDEO_OUTPUTS, {}, {}, TRUE)

ForbiddenDeviceIdSets == {{DeviceIdFuzzer_generate_from_parts(GsmId(1), ConfigModeInfoId(1))}}
ForbiddenMonitorNameSets == {{NameOf(1)}}

with_two_monitors_or_more_with_device_ids_different_than(forbidden_device_ids) ==
    /\ Configure("with_two_monitors_or_more_with_device_ids_different_than")
    /\ UNCHANGED has_an_internal_display
    /\ with_a_range_of_monitors(2, MAX_VIDEO_OUTPUTS, {}, forbidden_device_ids,
                                has_an_internal_display)

with_two_monitors_or_more_with_names_different_than(forbidden_monitor_names) ==
    /\ Configure("with_two_monitors_or_more_with_names_different_than")
    /\ UNCHANGED has_an_internal_display
    /\ with_a_range_of_monitors(2, MAX_VIDEO_OUTPUTS, forbidden_monitor_names, {},
                                has_an_internal_display)

UnchangedByFlagSetters ==
    UNCHANGED <<rand, video_outputs, has_an_internal_display, monitor_fuzzer,
                monitors, video_outputs_to_plug_in_indexes>>

for_which_committing_the_display_changes_fails_with(change_display_settings_error) ==
    /\ Inject("for_which_committing_the_display_changes_fails_with")
    /\ Returns
    /\ change_display_settings_error_on_commit' = Some(change_display_settings_error)
    /\ UnchangedByFlagSetters
    /\ UNCHANGED <<change_display_settings_error_by_monitor,
                   getting_primary_monitor_name_fails,
                   querying_the_display_config_of_the_primary_monitor_fails>>

\* Mutants of MonitorsOnErrorRange: 1..=len and 0..len.
MonitorsOnErrorRange_upper_end_included(len) == GenRangeInclusive(1, len)
MonitorsOnErrorRange_from_zero(len) == GenRange(0, len)

\* self.rand.gen_range(1..possible_devices_paths.len())
MonitorsOnErrorRange(len) == GenRange(1, len)

\* Device paths of the outputs that hold a monitor, in output order.
PluggedDevicePaths(outputs) ==
    LET plugged == SelectSeq(outputs, LAMBDA video_output : IsSome(video_output.monitor))
    IN [i \in 1 .. Len(plugged) |-> plugged[i].device_name]

\* HashMap::insert of `value` under every key of `keys`.
InsertAll(map, keys, value) ==
    [k \in DOMAIN map \cup keys |-> IF k \in keys THEN value ELSE map[k]]

for_which_changing_the_display_settings_fails_for_some_monitors(change_display_settings_error) ==
    LET possible_devices_paths == PluggedDevicePaths(video_outputs)
        n == Len(possible_devices_paths)
    IN /\ Inject("for_which_changing_the_display_settings_fails_for_some_monitors")
       /\ UNCHANGED <<video_outputs, has_an_internal_display, monitor_fuzzer, monitors,
                      video_outputs_to_plug_in_indexes,
                      change_display_settings_error_on_commit,
                      getting_primary_monitor_name_fails,
                      querying_the_display_config_of_the_primary_monitor_fails>>
       /\ IF MonitorsOnErrorRange(n) = {}
          THEN /\ Panics
               /\ UNCHANGED <<rand, change_display_settings_error_by_monitor>>
          ELSE \E n_monitor_on_error \in MonitorsOnErrorRange(n) :
               \E chosen \in SliceChooseMultiple(n, n_monitor_on_error) :
                   /\ Returns
                   /\ rand' = Advance(rand, 1 + n_monitor_on_error)
                   /\ change_display_settings_error_by_monitor' =
                          InsertAll(change_display_settings_error_by_monitor,
                                    {possible_devices_paths[i] : i \in chosen},
                                    change_display_settings_error)

for_which_getting_the_primary_monitor_fails ==
    /\ Inject("for_which_getting_the_primary_monitor_fails")
    /\ Returns
    /\ getting_primary_monitor_name_fails' = TRUE
    /\ UnchangedByFlagSetters
    /\ UNCHANGED <<change_display_settings_error_on_commit,
                   change_display_settings_error_by_monitor,
                   querying_the_display_config_of_the_primary_monitor_fails>>

for_which_querying_the_display_config_of_the_primary_monitor_fails ==
    /\ Inject("for_which_querying_the_display_config_of_the_primary_monitor_fails")
    /\ Returns
    /\ querying_the_display_config_of_the_primary_monitor_fails' = TRUE
    /\ UnchangedByFlagSetters
    /\ UNCHANGED <<change_display_settings_error_on_commit,
                   change_display_settings_error_by_monitor,
                   getting_primary_monitor_name_fails>>

\* Mutant of get_monitor: one placeholder for both roles.
get_monitor_one_placeholder(outputs, primary) ==
    LET matching == SelectSeq(outputs, LAMBDA video_output :
                        /\ IsSome(video_output.monitor)
                        /\ Unwrap(video_output.monitor).primary = primary)
    IN IF Len(matching) > 0 THEN Unwrap(matching[1].monitor).name
       ELSE PRIMARY_PLACEHOLDER

get_monitor(outputs, primary) ==
    LET matching == SelectSeq(outputs, LAMBDA video_output :
                        /\ IsSome(video_output.monitor)
                        /\ Unwrap(video_output.monitor).primary = primary)
    IN IF Len(matching) > 0 THEN Unwrap(matching[1].monitor).name
       ELSE IF primary THEN PRIMARY_PLACEHOLDER ELSE SECONDARY_PLACEHOLDER

get_all_monitors(outputs) ==
    LET plugged == SelectSeq(outputs, LAMBDA video_output : IsSome(video_output.monitor))
    IN [i \in 1 .. Len(plugged) |-> Unwrap(plugged[i].monitor).name]

FuzzedWin32_new(outputs, error_on_commit, error_by_monitor, primary_name_fails, display_config_fails) ==
    [video_outputs |-> outputs,
     change_display_settings_error_on_commit |-> error_on_commit,
     change_display_settings_error_by_monitor |-> error_by_monitor,
     getting_primary_monitor_name_fails |-> primary_name_fails,
     querying_the_display_config_of_the_primary_monitor_fails |-> display_config_fails]

build ==
    LET secondary_monitor == get_monitor(video_outputs, FALSE)
        primary_monitor == get_monitor(video_outputs, TRUE)
    IN /\ pc = "configuring"
       /\ last_call' = "build"
       /\ UNCHANGED <<rand, video_outputs, change_display_settings_error_on_commit,
                      change_display_settings_error_by_monitor, has_an_internal_display,
                      getting_primary_monitor_name_fails,
                      querying_the_display_config_of_the_primary_monitor_fails,
                      monitor_fuzzer, monitors, video_outputs_to_plug_in_indexes,
                      n_calls, n_configurations>>
       /\ IF secondary_monitor = primary_monitor
          THEN /\ Panics
               /\ computer' = computer
          ELSE /\ pc' = "built"
               /\ computer' = Some(
                      [win32 |-> FuzzedWin32_new(
                                     video_outputs,
                                     change_display_settings_error_on_commit,
                                     change_display_settings_error_by_monitor,
                                     getting_primary_monitor_name_fails,
                                     querying_the_display_config_of_the_primary_monitor_fails),
                       primary_monitor |-> primary_monitor,
                       secondary_monitor |-> secondary_monitor,
                       monitors |-> SortSeq(get_all_monitors(video_outputs), StrLess)])

Next ==
    \/ with_two_monitors_or_more
    \/ \E n_monitor \in MonitorCounts : with_n_monitors(n_monitor)
    \/ with_an_internal_display_and_at_least_one_more_monitor
    \/ \E forbidden_device_ids \in ForbiddenDeviceIdSets :
           with_two_monitors_or_more_with_device_ids_different_than(forbidden_device_ids)
    \/ \E forbidden_monitor_names \in ForbiddenMonitorNameSets :
           with_two_monitors_or_more_with_names_different_than(forbidden_monitor_names)
    \/ \E error \in DISP_CHANGE :
           for_which_committing_the_display_changes_fails_with(error)
    \/ \E error \in DISP_CHANGE :
           for_which_changing_the_display_settings_fails_for_some_monitors(error)
    \/ for_which_getting_the_primary_monitor_fails
    \/ for_which_querying_the_display_config_of_the_primary_monitor_fails
    \/ build

Spec == Init /\ [][Next]_vars

----------------------------------------------------------------------------
(* Properties *)

PluggedIndexes(outputs) == {i \in DOMAIN outputs : IsSome(outputs[i].monitor)}
PluggedMonitors(outputs) == {Unwrap(outputs[i].monitor) : i \in PluggedIndexes(outputs)}
PluggedPaths(outputs) == {outputs[i].device_name : i \in PluggedIndexes(outputs)}
PluggedCount(outputs) == Cardinality(PluggedIndexes(outputs))

ConfigureCalls ==
    {"with_two_monitors_or_more", "with_n_monitors",
     "with_an_internal_display_and_at_least_one_more_monitor",
     "with_two_monitors_or_more_with_device_ids_different_than",
     "with_two_monitors_or_more_with_names_different_than"}

FailsForSomeMonitors == "for_which_changing_the_display_settings_fails_for_some_monitors"

\* Some count-constraining call has returned.
Configured == Len(video_outputs) > 0

\* C1: once a count-constraining call has returned, the plugged monitors are
\* no more than the video outputs and the video outputs no more than 162.
C1_Cardinality ==
    Configured =>
        /\ PluggedCount(video_outputs) <= Len(video_outputs)
        /\ Len(video_outputs) <= MAX_VIDEO_OUTPUTS

\* C2: once a count-constraining call has returned, exactly one plugged
\* monitor is primary, and a plugged monitor is primary exactly when it is
\* positioned at the origin (0,0).
C2_OnePrimaryAtOrigin ==
    Configured =>
        /\ Cardinality({i \in PluggedIndexes(video_outputs) :
                          Unwrap(video_outputs[i].monitor).primary}) = 1
        /\ \A i \in PluggedIndexes(video_outputs) :
              LET monitor == Unwrap(video_outputs[i].monitor)
              IN monitor.primary <=> (monitor.position = [x |-> 0, y |-> 0])

C2_Witness ==
    /\ Configured
    /\ PluggedCount(video_outputs) = 2
    /\ Len(video_outputs) = MAX_VIDEO_OUTPUTS
    /\ Len(video_outputs) \in PluggedIndexes(video_outputs)
    /\ Unwrap(video_outputs[Len(video_outputs)].monitor).primary

\* C3: one failure injection with code X on a builder with p >= 2 plugged
\* outputs and an empty failure map returns with a map of k entries,
\* 1 <= k < p, every key the device path of a plugged output, every value X.
C3_PartialFailure ==
    [][\A X \in DISP_CHANGE :
        (/\ for_which_changing_the_display_settings_fails_for_some_monitors(X)
         /\ PluggedCount(video_outputs) >= 2
         /\ change_display_settings_error_by_monitor = <<>>)
        => /\ pc' = "configuring"
           /\ Cardinality(DOMAIN change_display_settings_error_by_monitor') >= 1
           /\ Cardinality(DOMAIN change_display_settings_error_by_monitor')
                  < PluggedCount(video_outputs)
           /\ DOMAIN change_display_settings_error_by_monitor'
                  \subseteq PluggedPaths(video_outputs)
           /\ \A path \in DOMAIN change_display_settings_error_by_monitor' :
                  change_display_settings_error_by_monitor'[path] = X]_vars

C3_Witness ==
    /\ last_call = FailsForSomeMonitors
    /\ pc = "configuring"
    /\ n_calls = 2
    /\ PluggedCount(video_outputs) = MAX_VIDEO_OUTPUTS
    /\ Cardinality(DOMAIN change_display_settings_error_by_monitor)
           = MAX_VIDEO_OUTPUTS - 1

\* C4: with the internal-display flag set, the primary plugged monitor has
\* the empty name; with the flag unset, no plugged monitor has the empty
\* name; in both cases no plugged monitor that is not primary has it.
C4_InternalDisplayRule ==
    /\ has_an_internal_display =>
          \A monitor \in PluggedMonitors(video_outputs) :
              monitor.primary => monitor.name = EMPTY_NAME
    /\ ~has_an_internal_display =>
          \A monitor \in PluggedMonitors(video_outputs) : monitor.name # EMPTY_NAME
    /\ \A monitor \in PluggedMonitors(video_outputs) :
          ~monitor.primary => monitor.name # EMPTY_NAME

\* The flag was set by an earlier call and the monitors generated by a later one.
C4_Witness ==
    /\ has_an_internal_display
    /\ last_call = "with_two_monitors_or_more"
    /\ pc = "configuring"
    /\ \E monitor \in PluggedMonitors(video_outputs) :
          monitor.primary /\ monitor.name = EMPTY_NAME

\* The name build() is to resolve for a role: that of the plugged monitor of
\* that role on the lowest output, the placeholder when there is none.
FirstNameOfRole(primary) ==
    LET candidates == {i \in PluggedIndexes(video_outputs) :
                         Unwrap(video_outputs[i].monitor).primary = primary}
    IN IF candidates = {}
       THEN (IF primary THEN PRIMARY_PLACEHOLDER ELSE SECONDARY_PLACEHOLDER)
       ELSE Unwrap(video_outputs[CHOOSE i \in candidates :
                                    \A j \in candidates : i <= j].monitor).name

\* C6: build() never fails its assertion, and the computer it returns names
\* as primary the first plugged primary monitor (or "<primary>"), as secondary
\* the first plugged monitor that is not primary (or "<secondary>"), the two
\* names being different.
C6_BuildResolvesNames ==
    /\ last_call = "build" => pc = "built"
    /\ pc = "built" =>
          /\ Unwrap(computer).primary_monitor = FirstNameOfRole(TRUE)
          /\ Unwrap(computer).secondary_monitor = FirstNameOfRole(FALSE)
          /\ Unwrap(computer).primary_monitor # Unwrap(computer).secondary_monitor

\* build() on a builder with a single monitor: the secondary is the placeholder.
C6_Witness ==
    /\ pc = "built"
    /\ PluggedCount(video_outputs) = 1
    /\ Unwrap(computer).secondary_monitor = SECONDARY_PLACEHOLDER
    /\ Unwrap(computer).primary_monitor = EMPTY_NAME

\* C7: the failure map, when it is not empty, holds only device paths of
\* plugged outputs and leaves at least one plugged device path out.
C7_StrictSubsetOfPlugged ==
    change_display_settings_error_by_monitor # <<>> =>
        /\ DOMAIN change_display_settings_error_by_monitor
               \subseteq PluggedPaths(video_outputs)
        /\ PluggedPaths(video_outputs)
               \ DOMAIN change_display_settings_error_by_monitor # {}

IsAscending(indexes) ==
    \A a \in 1 .. Len(indexes) - 1 : indexes[a] < indexes[a + 1]

\* C8: when with_a_range_of_monitors returns, the chosen indexes are pairwise
\* distinct, exactly n_monitor outputs are plugged and the others are not, the
\* i-th generated monitor sits on the i-th smallest chosen index, and
\* with_n_monitors(n) leaves exactly n plugged outputs.
C8_OrderPreservingBinding ==
    [][/\ \A n \in MonitorCounts :
            (with_n_monitors(n) /\ pc' = "configuring")
                => PluggedCount(video_outputs') = n
       /\ (n_configurations' # n_configurations /\ pc' = "configuring") =>
            /\ Cardinality(RangeOf(video_outputs_to_plug_in_indexes'))
                   = Len(video_outputs_to_plug_in_indexes')
            /\ IsAscending(video_outputs_to_plug_in_indexes')
            /\ Len(video_outputs_to_plug_in_indexes') = Len(monitors')
            /\ PluggedCount(video_outputs') = Len(monitors')
            /\ PluggedIndexes(video_outputs') =
                   {video_outputs_to_plug_in_indexes'[m] + 1 :
                    m \in DOMAIN video_outputs_to_plug_in_indexes'}
            /\ \A m \in DOMAIN monitors' :
                   video_outputs'[video_outputs_to_plug_in_indexes'[m] + 1].monitor
                       = Some(monitors'[m])]_vars

\* Fewer monitors than outputs, the last output among the plugged ones.
C8_Witness ==
    /\ last_call \in ConfigureCalls
    /\ pc = "configuring"
    /\ Len(monitors) = 2
    /\ Len(video_outputs) = MAX_VIDEO_OUTPUTS
    /\ video_outputs_to_plug_in_indexes = <<1, MAX_VIDEO_OUTPUTS - 1>>

LeafFuzzers(fuzzer) ==
    {fuzzer.monitor_name_fuzzer, fuzzer.device_id_fuzzer,
     fuzzer.config_mode_info_id_fuzzer, fuzzer.gsm_id_fuzzer}

\* C9 as stated: the four leaf generators of a MonitorFuzzer are seeded from
\* four separate draws of its stream.
C9_SeparateDraws ==
    IsSome(monitor_fuzzer) =>
        LET fuzzer == Unwrap(monitor_fuzzer)
        IN /\ fuzzer.monitor_name_fuzzer.rand.drawn_at # fuzzer.device_id_fuzzer.rand.drawn_at
           /\ fuzzer.monitor_name_fuzzer.rand.drawn_at
                  # fuzzer.config_mode_info_id_fuzzer.rand.drawn_at
           /\ fuzzer.monitor_name_fuzzer.rand.drawn_at # fuzzer.gsm_id_fuzzer.rand.drawn_at
           /\ fuzzer.device_id_fuzzer.rand.drawn_at
                  # fuzzer.config_mode_info_id_fuzzer.rand.drawn_at
           /\ fuzzer.device_id_fuzzer.rand.drawn_at # fuzzer.gsm_id_fuzzer.rand.drawn_at
           /\ fuzzer.config_mode_info_id_fuzzer.rand.drawn_at
                  # fuzzer.gsm_id_fuzzer.rand.drawn_at

\* C9 amended: every count-constraining call seeds its MonitorFuzzer from a
\* new draw of the ComputerFuzzer's stream; MonitorFuzzer::new makes one draw
\* from its own stream and seeds all four leaf generators with that one value.
C9_OneDrawSharedByLeaves ==
    [][n_configurations' # n_configurations =>
        LET fuzzer == Unwrap(monitor_fuzzer')
        IN /\ IsSome(monitor_fuzzer')
           /\ fuzzer.rand.drawn_at = rand.pos
           /\ rand'.pos > rand.pos
           /\ fuzzer.rand.pos = 1
           /\ \A leaf \in LeafFuzzers(fuzzer) :
                  /\ leaf.rand.drawn_at = 0
                  /\ leaf.rand.pos = 0
                  /\ leaf.seed = fuzzer.monitor_name_fuzzer.seed]_vars

\* A second MonitorFuzzer, seeded later in the ComputerFuzzer's stream.
C9_Witness ==
    /\ IsSome(monitor_fuzzer)
    /\ n_configurations = 2
    /\ Unwrap(monitor_fuzzer).rand.drawn_at > 0
    /\ Unwrap(monitor_fuzzer).monitor_name_fuzzer.seed = 1
    /\ Cardinality(LeafFuzzers(Unwrap(monitor_fuzzer))) = 1

\* C10: failure injection on a builder with fewer than 2 plugged outputs
\* panics and adds nothing to the failure map.
C10_TooFewPluggedPanics ==
    [][\A X \in DISP_CHANGE :
        (/\ for_which_changing_the_display_settings_fails_for_some_monitors(X)
         /\ PluggedCount(video_outputs) < 2)
        => /\ pc' = "panicked"
           /\ change_display_settings_error_by_monitor'
                  = change_display_settings_error_by_monitor]_vars

\* The injection panicked on a builder with exactly one plugged output.
C10_Witness ==
    /\ last_call = FailsForSomeMonitors
    /\ pc = "panicked"
    /\ PluggedCount(video_outputs) = 1
    /\ change_display_settings_error_by_monitor = <<>>

============================================================================
